---- MODULE Spec2Model ----
(***************************************************************************)
(* Commit tracking of Lunaria's git layer: LunariaGitInstance (the         *)
(* checkpoint cache and getFileLatestChanges) and findLatestTrackedCommit  *)
(* (the ignored-keyword veto and the @lunaria-track / @lunaria-ignore      *)
(* directives).                                                            *)
(*                                                                         *)
(* Texts (commit messages, commit bodies, paths, globs, keywords) are      *)
(* sequences of symbols.  A symbol is one character, except that the two   *)
(* directive words are lexed as one symbol each.                           *)
(***************************************************************************)
EXTENDS Integers, Sequences, FiniteSets, TLC

VARIABLES
  tracking,    \* LunariaConfig['tracking'] of the run: [ignoredKeywords]
  repo,        \* the repository's commits, oldest first; a commit's hash is its index
  force,       \* LunariaGitInstance.#force
  cache,       \* LunariaGitInstance.#cache: path -> hash, for the paths that have an entry
  stored,      \* the contents of the durable 'git' cache of this configuration
  phase,       \* "running": an instance is alive; "ended": the process is over
  last,        \* what the latest getFileLatestChanges call of this instance did
  argPath,     \* findLatestTrackedCommit: the path argument
  argCommits,  \* findLatestTrackedCommit: the commits argument, as written by their authors
  ret          \* findLatestTrackedCommit: the outcome, once it was applied

vars == <<tracking, repo, force, cache, stored, phase, last, argPath, argCommits, ret>>

(***************************************************************************)
(* Symbols and texts.                                                      *)
(***************************************************************************)
Track == "@lunaria-track"
Ignore == "@lunaria-ignore"
NL == "\n"

PathA == <<"d", "/", "a">>
PathB == <<"s", "/", "b">>
PathN == <<"n">>
Paths == {PathA, PathB, PathN}

Wip == <<"w", "i", "p">>
Ty == <<"t", "y">>
KeywordLists == {<<>>, <<Wip>>, <<Wip, Ty>>}

MsgFix == <<"f", "i", "x">>
MsgWip == <<"W", "I", "P">>
MsgTy == <<"x", "T", "y">>

\* String.prototype.toLowerCase on one character (the 'i' flag's case folding)
toLowerCase(c) ==
  CASE c = "W" -> "w"
    [] c = "I" -> "i"
    [] c = "P" -> "p"
    [] c = "T" -> "t"
    [] OTHER -> c

\* Array.prototype.join
RECURSIVE join(_, _)
join(list, sep) ==
  IF list = <<>> THEN <<>>
  ELSE IF Len(list) = 1 THEN list[1]
  ELSE list[1] \o <<sep>> \o join(Tail(list), sep)

\* String.prototype.split with a one-character separator: the empty text
\* splits into one empty piece
RECURSIVE split(_, _)
split(text, sep) ==
  IF \A i \in 1..Len(text) : text[i] # sep THEN <<text>>
  ELSE LET i == CHOOSE k \in 1..Len(text) :
                  text[k] = sep /\ \A j \in 1..(k - 1) : text[j] # sep
       IN <<SubSeq(text, 1, i - 1)>> \o split(SubSeq(text, i + 1, Len(text)), sep)

(***************************************************************************)
(* A commit as its author wrote it: a message (the subject) and the lines  *)
(* of the body.  A line is free text (directive "none") or a directive     *)
(* with its targets.  BodyText is the body git stores.                     *)
(***************************************************************************)
TextLine(t) == [directive |-> "none", targets |-> <<>>, text |-> t]
DirLine(d, targets) == [directive |-> d, targets |-> targets, text |-> <<>>]

LineText(line) ==
  IF line.directive = "none" THEN line.text
  ELSE <<line.directive, ":">> \o join(line.targets, ";")

BodyText(lines) == join([i \in 1..Len(lines) |-> LineText(lines[i])], NL)

GlobDirA == <<"d", "/", "*">>
GlobDirAll == <<"d", "/", "*", "*">>

BodyNone == <<>>
BodyPlain == <<TextLine(<<"x">>)>>
BodyTrackA == <<DirLine(Track, <<PathA>>)>>
BodyTrackMulti == <<DirLine(Track, <<PathB, GlobDirA>>)>>
BodyIgnoreGlob == <<DirLine(Ignore, <<GlobDirAll>>)>>
BodyIgnoreMulti == <<DirLine(Ignore, <<PathA, PathB>>)>>
BodyTwo == <<TextLine(<<"x">>), DirLine(Ignore, <<GlobDirAll>>), DirLine(Track, <<PathA>>)>>
BodyTrackNoList == <<DirLine(Track, <<>>), TextLine(<<"x">>)>>
BodyIgnoreNoList == <<DirLine(Ignore, <<>>)>>
BodyTrackEmptyEntry == <<DirLine(Track, <<PathA, <<>>>>)>>

Authored(m, lines) == [message |-> m, lines |-> lines]

CommitKinds ==
  { Authored(MsgFix, BodyPlain),
    Authored(MsgWip, BodyTrackA),
    Authored(MsgTy, BodyNone),
    Authored(MsgFix, BodyTrackA),
    Authored(MsgFix, BodyTrackMulti),
    Authored(MsgFix, BodyIgnoreGlob),
    Authored(MsgFix, BodyIgnoreMulti),
    Authored(MsgFix, BodyTwo),
    Authored(MsgFix, BodyTrackNoList),
    Authored(MsgFix, BodyIgnoreNoList),
    Authored(MsgFix, BodyTrackEmptyEntry) }

\* the log line simple-git gives for a commit: DefaultLogFields & ListLogLine
\* (the date is a function of the hash and is left out)
LogLine(h, c) == [hash |-> h, message |-> c.message, body |-> BodyText(c.lines)]

(***************************************************************************)
(* findLatestTrackedCommit                                                 *)
(***************************************************************************)
\* picomatch.isMatch(str, glob) for a non-empty glob of literal characters,
\* '*' (any run without '/') and '**' (any run)
RECURSIVE isMatch(_, _)
isMatch(str, glob) ==
  IF glob = <<>> THEN str = <<>>
  ELSE IF Len(glob) >= 2 /\ glob[1] = "*" /\ glob[2] = "*"
    THEN \E k \in 0..Len(str) :
           isMatch(SubSeq(str, k + 1, Len(str)), SubSeq(glob, 3, Len(glob)))
  ELSE IF glob[1] = "*"
    THEN \E k \in 0..Len(str) :
           /\ \A j \in 1..k : str[j] # "/"
           /\ isMatch(SubSeq(str, k + 1, Len(str)), Tail(glob))
  ELSE str # <<>> /\ str[1] = glob[1] /\ isMatch(Tail(str), Tail(glob))

\* a faulty variant of ignoredKeywordsRe: the 'i' flag forgotten
ignoredKeywordsReCaseSensitive(tr) ==
  [alternatives |-> split(join(tr.ignoredKeywords, "|"), "|"), ignoreCase |-> FALSE]

\* new RegExp(`(${tracking.ignoredKeywords.join('|')})`, 'i'): the alternatives
\* are the pieces of the joined source between the '|'
ignoredKeywordsRe(tr) ==
  [alternatives |-> split(join(tr.ignoredKeywords, "|"), "|"), ignoreCase |-> TRUE]

\* text.match(re) is not null: some alternative occurs somewhere in the text
match(text, re) ==
  LET fold(c) == IF re.ignoreCase THEN toLowerCase(c) ELSE c
  IN \E n \in 1..Len(re.alternatives) :
       LET alt == re.alternatives[n]
       IN \E i \in 0..(Len(text) - Len(alt)) :
            \A j \in 1..Len(alt) : fold(text[i + j]) = fold(alt[j])

\* trackerDirectivesRe matches at position i of the body
DirectiveAt(body, i) ==
  body[i] \in {Track, Ignore} /\ i < Len(body) /\ body[i + 1] = ":"

\* body.match(trackerDirectivesRe): the leftmost directive word followed by ':',
\* with the group pathsOrGlobs = the text up to the line break, undefined
\* (hasPaths = FALSE) when that text is empty
trackerDirectiveMatch(body) ==
  IF \E i \in 1..Len(body) : DirectiveAt(body, i)
  THEN LET i == CHOOSE k \in 1..Len(body) :
                  DirectiveAt(body, k) /\ \A j \in 1..(k - 1) : ~DirectiveAt(body, j)
           rest == SubSeq(body, i + 2, Len(body))
           n == IF \A k \in 1..Len(rest) : rest[k] # NL THEN Len(rest)
                ELSE (CHOOSE k \in 1..Len(rest) :
                        rest[k] = NL /\ \A j \in 1..(k - 1) : rest[j] # NL) - 1
       IN [matched |-> TRUE, directive |-> body[i],
           hasPaths |-> n > 0, pathsOrGlobs |-> SubSeq(rest, 1, n)]
  ELSE [matched |-> FALSE, directive |-> "none", hasPaths |-> FALSE, pathsOrGlobs |-> <<>>]

\* pathsOrGlobs.split(';').find(...): "found" an entry, "undefined", or "throw"
\* (picomatch throws a TypeError on the empty pattern)
RECURSIVE findPathOrGlob(_, _, _)
findPathOrGlob(directive, path, entries) ==
  IF entries = <<>> THEN "undefined"
  ELSE IF Head(entries) = <<>> THEN "throw"
  ELSE IF directive = Track /\ isMatch(path, Head(entries)) THEN "found"
  ELSE IF directive = Ignore /\ ~isMatch(path, Head(entries)) THEN "found"
  ELSE findPathOrGlob(directive, path, Tail(entries))

\* the callback of commits.find: "true", "false", or "throw" (a TypeError:
\* split of the undefined group, or picomatch's)
isTracked(tr, path, commit) ==
  IF match(commit.message, ignoredKeywordsRe(tr)) THEN "false"
  ELSE LET m == trackerDirectiveMatch(commit.body)
       IN IF ~m.matched THEN "true"
          ELSE IF ~m.hasPaths THEN "throw"
          ELSE LET r == findPathOrGlob(m.directive, path, split(m.pathsOrGlobs, ";"))
               IN IF r = "throw" THEN "throw"
                  ELSE IF r = "found" THEN "true" ELSE "false"

RECURSIVE findFrom(_, _, _, _)
findFrom(tr, path, commits, i) ==
  IF i > Len(commits) THEN [kind |-> "undefined", index |-> 0]
  ELSE LET t == isTracked(tr, path, commits[i])
       IN IF t = "throw" THEN [kind |-> "throw", index |-> i]
          ELSE IF t = "true" THEN [kind |-> "commit", index |-> i]
          ELSE findFrom(tr, path, commits, i + 1)

\* the outcome: the commit at index, undefined, or a TypeError raised at index
findLatestTrackedCommit(tr, path, commits) == findFrom(tr, path, commits, 1)

(***************************************************************************)
(* The specification of findLatestTrackedCommit alone: the arguments are   *)
(* drawn from bounded sets and the function is applied to them.            *)
(***************************************************************************)
MaxLen == 3

RECURSIVE SeqsUpTo(_, _)
SeqsUpTo(S, n) ==
  IF n = 0 THEN {<<>>}
  ELSE LET shorter == SeqsUpTo(S, n - 1)
       IN shorter \cup {Append(s, x) : s \in {t \in shorter : Len(t) = n - 1}, x \in S}

NotApplied == [kind |-> "pending", index |-> 0]
NoCall ==
  [kind |-> "none", path |-> <<>>, from |-> [given |-> FALSE, hash |-> 0, parent |-> FALSE],
   all |-> <<>>, head |-> 0, found |-> NotApplied,
   latestChange |-> [hash |-> 0, message |-> <<>>],
   latestTrackedChange |-> [hash |-> 0, message |-> <<>>],
   logged |-> <<>>]
NoEntries == [p \in {} |-> 0]

InitFind ==
  /\ tracking \in {[ignoredKeywords |-> k] : k \in KeywordLists}
  /\ argPath \in Paths
  /\ argCommits \in SeqsUpTo(CommitKinds, MaxLen)
  /\ ret = NotApplied
  /\ repo = <<>>
  /\ force = FALSE
  /\ cache = NoEntries
  /\ stored = NoEntries
  /\ phase = "ended"
  /\ last = NoCall

Apply ==
  /\ ret = NotApplied
  /\ ret' = findLatestTrackedCommit(tracking, argPath,
              [i \in 1..Len(argCommits) |-> LogLine(i, argCommits[i])])
  /\ UNCHANGED <<tracking, argPath, argCommits, repo, force, cache, stored, phase, last>>

NextFind == Apply

SpecFind == InitFind /\ [][NextFind]_vars

(***************************************************************************)
(* LunariaGitInstance.  The repository has a linear history that is only   *)
(* appended to; a commit touches a set of files.                           *)
(***************************************************************************)
MaxCommits == 3

\* the configurations and the paths the instance is run with
RepoKeywordLists == {<<>>, <<Wip>>}
RepoPaths == {PathA, PathB}

Committed(m, lines, files) == [message |-> m, lines |-> lines, files |-> files]

RepoKinds ==
  { Committed(MsgFix, BodyPlain, {PathA, PathB}),
    Committed(MsgFix, BodyPlain, {PathB}),
    Committed(MsgWip, BodyTrackA, {PathA}),
    Committed(MsgFix, BodyTrackA, {PathA, PathB}),
    Committed(MsgFix, BodyTrackNoList, {PathA}) }

\* log.latest of an empty log, and the fields of a commit kept in the result
NoCommit == [hash |-> 0, message |-> <<>>]
Change(c) == [hash |-> c.hash, message |-> c.message]

\* constructor: the initial #cache, given the contents of the stored cache
constructor(f, contents) == IF f THEN NoEntries ELSE contents

\* a faulty variant of logFrom: the checkpoint itself as the lower bound
logFromCheckpoint(ch, path) ==
  IF path \in DOMAIN ch
  THEN [given |-> TRUE, hash |-> ch[path], parent |-> FALSE]
  ELSE [given |-> FALSE, hash |-> 0, parent |-> FALSE]

\* the `from` option: `${this.#cache[path]}^`, the checkpoint's parent, or undefined
logFrom(ch, path) ==
  IF path \in DOMAIN ch
  THEN [given |-> TRUE, hash |-> ch[path], parent |-> TRUE]
  ELSE [given |-> FALSE, hash |-> 0, parent |-> FALSE]

\* the commits lo..i of the repository that touch path, newest first
RECURSIVE logLines(_, _, _, _)
logLines(rp, path, i, lo) ==
  IF i < lo THEN <<>>
  ELSE (IF path \in rp[i].files THEN <<LogLine(i, rp[i])>> ELSE <<>>)
       \o logLines(rp, path, i - 1, lo)

\* git log [<from>...] -- <file>: without `from` the whole history of the file;
\* with it the commits reachable from HEAD and not from the revision `from`
\* names.  A revision git cannot resolve (an unknown hash, the parent of the
\* root commit) makes git fail, and simple-git rejects.
gitLog(rp, path, from) ==
  IF ~from.given THEN [ok |-> TRUE, all |-> logLines(rp, path, Len(rp), 1)]
  ELSE IF from.hash \notin 1..Len(rp) THEN [ok |-> FALSE, all |-> <<>>]
  ELSE IF from.parent /\ from.hash = 1 THEN [ok |-> FALSE, all |-> <<>>]
  ELSE LET base == IF from.parent THEN from.hash - 1 ELSE from.hash
       IN [ok |-> TRUE, all |-> logLines(rp, path, Len(rp), base + 1)]

\* a faulty variant of orLatestChange: the oldest commit of the log as the fallback
orOldestChange(found, all) ==
  IF found.kind = "commit" THEN Change(all[found.index])
  ELSE IF all = <<>> THEN NoCommit ELSE Change(all[Len(all)])

\* findLatestTrackedCommit(...) ?? latestChange, with latestChange = log.latest
orLatestChange(found, all) ==
  IF found.kind = "commit" THEN Change(all[found.index])
  ELSE IF all = <<>> THEN NoCommit ELSE Change(all[1])

\* a faulty variant of uncommitted: the check is left out
uncommittedNeverExits(latestChange, latestTrackedChange) == FALSE

\* !latestChange || !latestTrackedChange
uncommitted(latestChange, latestTrackedChange) ==
  latestChange = NoCommit \/ latestTrackedChange = NoCommit

\* a faulty variant of cacheWrite: the force flag is not looked at
cacheWriteAlways(f, ch, path, hash) ==
  [p \in DOMAIN ch \cup {path} |-> IF p = path THEN hash ELSE ch[p]]

\* if (!this.#force) this.#cache[path] = latestTrackedChange.hash
cacheWrite(f, ch, path, hash) ==
  IF f THEN ch
  ELSE [p \in DOMAIN ch \cup {path} |-> IF p = path THEN hash ELSE ch[p]]

\* one getFileLatestChanges(path) call on cache ch and repository rp: what it
\* does (kind: "result", "exit" = the logged error and process.exit(1),
\* "gitError" = the rejected log, "throw" = the TypeError of
\* findLatestTrackedCommit) and the cache it leaves
getFileLatestChanges(tr, f, ch, rp, path) ==
  LET from == logFrom(ch, path)
      log == gitLog(rp, path, from)
      call == [NoCall EXCEPT !.path = path, !.from = from, !.head = Len(rp)]
  IN IF ~log.ok THEN [call |-> [call EXCEPT !.kind = "gitError"], cache |-> ch]
     ELSE
       LET found == findLatestTrackedCommit(tr, path, log.all)
           seen == [call EXCEPT !.all = log.all, !.found = found]
       IN IF found.kind = "throw" THEN [call |-> [seen EXCEPT !.kind = "throw"], cache |-> ch]
          ELSE
            LET latestChange == IF log.all = <<>> THEN NoCommit ELSE Change(log.all[1])
                latestTrackedChange == orLatestChange(found, log.all)
            IN IF uncommitted(latestChange, latestTrackedChange)
               THEN [call |-> [seen EXCEPT !.kind = "exit", !.logged = path], cache |-> ch]
               ELSE [call |-> [seen EXCEPT !.kind = "result",
                                           !.latestChange = latestChange,
                                           !.latestTrackedChange = latestTrackedChange],
                     cache |-> cacheWrite(f, ch, path, latestTrackedChange.hash)]

Init ==
  /\ tracking \in {[ignoredKeywords |-> k] : k \in RepoKeywordLists}
  /\ repo = <<>>
  /\ force \in BOOLEAN
  /\ stored = NoEntries
  /\ cache = constructor(force, stored)
  /\ phase = "running"
  /\ last = NoCall
  /\ argPath = <<>>
  /\ argCommits = <<>>
  /\ ret = NotApplied

\* a commit is added to the repository (by anyone, at any time)
Commit(c) ==
  /\ Len(repo) < MaxCommits
  /\ repo' = Append(repo, c)
  /\ UNCHANGED <<tracking, force, cache, stored, phase, last, argPath, argCommits, ret>>

\* getFileLatestChanges(path) on the live instance
GetFileLatestChanges(path) ==
  /\ phase = "running"
  /\ LET r == getFileLatestChanges(tracking, force, cache, repo, path)
     IN /\ last' = r.call
        /\ cache' = r.cache
        /\ phase' = IF r.call.kind = "exit" THEN "ended" ELSE phase
  /\ UNCHANGED <<tracking, repo, force, stored, argPath, argCommits, ret>>

\* the process ends normally: the cache is persisted, unless in force mode
Flush ==
  /\ phase = "running"
  /\ stored' = IF force THEN stored ELSE cache
  /\ phase' = "ended"
  /\ UNCHANGED <<tracking, repo, force, cache, last, argPath, argCommits, ret>>

\* a new process constructs its LunariaGitInstance (same configuration hash)
Construct(f) ==
  /\ phase = "ended"
  /\ force' = f
  /\ cache' = constructor(f, stored)
  /\ phase' = "running"
  /\ last' = NoCall
  /\ UNCHANGED <<tracking, repo, stored, argPath, argCommits, ret>>

Next ==
  \/ \E c \in RepoKinds : Commit(c)
  \/ \E p \in RepoPaths : GetFileLatestChanges(p)
  \/ Flush
  \/ \E f \in BOOLEAN : Construct(f)

Spec == Init /\ [][Next]_vars

(***************************************************************************)
(* What the claims speak of, stated on the commits as authored.            *)
(***************************************************************************)
\* the message contains keyword k, in any letter case
ContainsKeyword(message, k) ==
  \E i \in 0..(Len(message) - Len(k)) :
    \A j \in 1..Len(k) : toLowerCase(message[i + j]) = toLowerCase(k[j])

\* the message matches one of the configured ignored keywords
MatchesIgnoredKeyword(tr, message) ==
  \E n \in 1..Len(tr.ignoredKeywords) : ContainsKeyword(message, tr.ignoredKeywords[n])

\* the first directive line of a body (directive "none" when there is none)
FirstDirective(lines) ==
  IF \A i \in 1..Len(lines) : lines[i].directive = "none" THEN TextLine(<<>>)
  ELSE lines[CHOOSE i \in 1..Len(lines) :
               lines[i].directive # "none" /\ \A j \in 1..(i - 1) : lines[j].directive = "none"]

\* a list of one or more paths or globs
IsList(targets) == targets # <<>> /\ \A n \in 1..Len(targets) : targets[n] # <<>>

PathMatchesAny(path, targets) == \E n \in 1..Len(targets) : isMatch(path, targets[n])

\* a commit no keyword vetoes whose first directive is d with a list
Directed(tr, c, d) ==
  /\ ~MatchesIgnoredKeyword(tr, c.message)
  /\ FirstDirective(c.lines).directive = d
  /\ IsList(FirstDirective(c.lines).targets)

Applied == ret # NotApplied
Lowest(S) == CHOOSE i \in S : \A j \in S : i <= j
FirstOf(S) == IF S = {} THEN [kind |-> "undefined", index |-> 0]
              ELSE [kind |-> "commit", index |-> Lowest(S)]

\* C1 (as claimed): with some keyword configured, over commits that no keyword
\* vetoes and whose first directive is @lunaria-ignore with a list, the result
\* is the newest commit whose list the path matches NO entry of, and none if
\* the path matches an entry of every commit's list.
C1_IgnoredWhenAnyEntryMatches ==
  (/\ Applied
   /\ tracking.ignoredKeywords # <<>>
   /\ \A i \in 1..Len(argCommits) : Directed(tracking, argCommits[i], Ignore))
  => ret = FirstOf({i \in 1..Len(argCommits) :
                     ~PathMatchesAny(argPath, FirstDirective(argCommits[i].lines).targets)})

\* C2 (as claimed): for every set of ignored keywords, over commits that no
\* keyword vetoes and whose first directive is @lunaria-track with a list, the
\* result is the newest commit whose list the path matches an entry of, and
\* none if there is no such commit.
C2_TrackedIffSomeEntryMatches ==
  (/\ Applied
   /\ \A i \in 1..Len(argCommits) : Directed(tracking, argCommits[i], Track))
  => ret = FirstOf({i \in 1..Len(argCommits) :
                     PathMatchesAny(argPath, FirstDirective(argCommits[i].lines).targets)})

\* C2, where some keyword is configured: the same statement, which holds
\* there (the empty keyword list is what C2 fails on).
C2_TrackedIffSomeEntryMatchesWithKeywords ==
  tracking.ignoredKeywords # <<>> => C2_TrackedIffSomeEntryMatches

\* C3 (as claimed): for every set of ignored keywords, the empty one included,
\* over a non-empty sequence without directives and without a message that
\* matches a configured keyword, the result is the newest commit.
C3_NewestWithoutDirectivesAndKeywords ==
  (/\ Applied
   /\ argCommits # <<>>
   /\ \A i \in 1..Len(argCommits) :
        /\ FirstDirective(argCommits[i].lines).directive = "none"
        /\ ~MatchesIgnoredKeyword(tracking, argCommits[i].message))
  => ret = [kind |-> "commit", index |-> 1]

\* C4: the commit findLatestTrackedCommit returns never has a message that
\* matches a configured ignored keyword in any letter case, whatever its
\* directive says.
C4_VetoedNeverReturned ==
  (Applied /\ ret.kind = "commit")
  => ~MatchesIgnoredKeyword(tracking, argCommits[ret.index].message)

\* C4's case: the newest commit says "WIP" against the keyword "wip" and
\* carries @lunaria-track naming exactly the path; an older commit is returned.
C4_Witness ==
  /\ Applied
  /\ tracking.ignoredKeywords = <<Wip>>
  /\ argPath = PathA
  /\ Len(argCommits) >= 2
  /\ argCommits[1] = Authored(MsgWip, BodyTrackA)
  /\ ret = [kind |-> "commit", index |-> 2]

\* C7 (as claimed): with some keyword configured, a newest commit that no
\* keyword vetoes and whose first directive has no path list is treated as
\* having no directive: nothing is raised and that commit is the result.
C7_DirectiveWithoutListIsTracked ==
  (/\ Applied
   /\ tracking.ignoredKeywords # <<>>
   /\ argCommits # <<>>
   /\ ~MatchesIgnoredKeyword(tracking, argCommits[1].message)
   /\ FirstDirective(argCommits[1].lines).directive # "none"
   /\ FirstDirective(argCommits[1].lines).targets = <<>>)
  => ret = [kind |-> "commit", index |-> 1]

\* the call got a log back from git
HasLog == last.kind \in {"result", "exit", "throw"}
Hashes(all) == {all[i].hash : i \in 1..Len(all)}
\* the commits touching the called path among lo..(the head at the call)
Touching(lo) == {h \in lo..last.head : last.path \in repo[h].files}
NewestFirst(all) == \A i \in 1..(Len(all) - 1) : all[i].hash > all[i + 1].hash

\* C5 (as claimed): with a checkpoint cached for the path, the history the
\* call resolves over holds only commits strictly after the checkpoint commit.
C5_CheckpointExcluded ==
  (HasLog /\ last.from.given)
  => \A i \in 1..Len(last.all) : last.all[i].hash > last.from.hash

\* C5 (amended): with a checkpoint cached for the path, the history is
\* requested from the checkpoint's parent, and a history that is returned holds
\* exactly the path's commits from the checkpoint commit on, newest first: the
\* checkpoint commit is included, as its oldest element.
C5_CheckpointIncluded ==
  (HasLog /\ last.from.given)
  => /\ last.from.parent
     /\ Hashes(last.all) = Touching(last.from.hash)
     /\ NewestFirst(last.all)
     /\ last.all # <<>>
     /\ last.all[Len(last.all)].hash = last.from.hash

\* C5's case: a call with a checkpoint cached got the checkpoint commit and a
\* newer commit back.
C5_Witness ==
  last.kind = "result" /\ last.from.given /\ Len(last.all) >= 2

\* the same call as a from-scratch walk of the history as it was at the call
FromScratch ==
  getFileLatestChanges(tracking, force, NoEntries, SubSeq(repo, 1, last.head), last.path).call

SameAsFromScratch ==
  /\ last.kind = "result"
  /\ last.latestChange = FromScratch.latestChange
  /\ last.latestTrackedChange = FromScratch.latestTrackedChange

\* C6 (as claimed): a call that uses a cached checkpoint returns the result a
\* from-scratch walk returns at that moment, whichever commit the checkpoint is.
C6_CheckpointIsPureOptimization ==
  (last.kind # "none" /\ last.from.given /\ FromScratch.kind = "result")
  => SameAsFromScratch

\* C6, where the checkpoint is not the repository's first commit: the same
\* statement, which holds there.
C6_PureOptimizationAboveRoot ==
  (last.kind # "none" /\ last.from.given /\ last.from.hash # 1 /\ FromScratch.kind = "result")
  => SameAsFromScratch

\* C8: a call whose requested history is empty returns no result: it logs the
\* uncommitted-file error naming the path and ends the process, and the cache
\* has no entry for the path.
C8_EmptyHistoryExits ==
  (HasLog /\ last.all = <<>>)
  => /\ last.kind = "exit"
     /\ last.logged = last.path
     /\ phase = "ended"
     /\ last.path \notin DOMAIN cache

\* C8's case: a path without commits in a repository that has commits, in a
\* run that cached a checkpoint for another path.
C8_Witness ==
  last.kind = "exit" /\ repo # <<>> /\ DOMAIN cache # {}

\* C9: in force mode the mapping is empty whatever is stored, no call has a
\* lower bound, and a call's log is the whole history of its path.
C9_ForceBypassesCache ==
  force => /\ cache = NoEntries
           /\ ~last.from.given
           /\ HasLog => (Hashes(last.all) = Touching(1) /\ NewestFirst(last.all))

\* C9's case: a force run returned a result for a path that has a stored
\* checkpoint.
C9_Witness ==
  force /\ last.kind = "result" /\ last.path \in DOMAIN stored

====
